---- MODULE Spec2Model ----
(***************************************************************************)
(* State-machine model of ipixelcli.py: the bridge between a JSON command  *)
(* protocol (websocket server mode, or one-shot command-line mode) and a   *)
(* BLE peripheral.  One task of the event loop is modelled per element of  *)
(* Tasks; a task runs handle_websocket (with its recursive re-entries),    *)
(* execute_command, or connect_to_device alone.  Every await of the source *)
(* is a separate step; the outcome of an awaited library call (bleak,      *)
(* websockets) is chosen nondeterministically among the results and        *)
(* exceptions that call can produce.                                       *)
(***************************************************************************)
EXTENDS Integers, Sequences, FiniteSets, TLC

(***************************************************************************)
(* Bounds of the model.                                                    *)
(***************************************************************************)
\* tasks of the event loop that exist in the model
NumTasks == 2
\* messages one websocket delivers before the model stops delivering more
MaxMsgs == 1
\* nested activations of handle_websocket the model follows
MaxDepth == 5
\* connect attempts that return without raising and without a connection
MaxIdle == 1
\* largest max_retries passed when connect_to_device is called on its own
MaxRetriesArg == 5
\* longest parameter list of the one-shot runs over all parameter lists
MaxParams == 3

\* connect_to_device(address, max_retries=5)
DefaultMaxRetries == 5

Tasks == 1..NumTasks

\* Python's None, and "no exception"
None == 0
NoExc == "none"

(***************************************************************************)
(* The command registry.                                                   *)
(***************************************************************************)
COMMANDS ==
    { "clear", "set_brightness", "set_clock_mode", "set_fun_mode", "set_pixel",
      "delete_screen", "send_text", "set_screen", "set_speed", "send_animation",
      "set_orientation" }

(***************************************************************************)
(* Strings that are split are sequences of one-character strings.          *)
(***************************************************************************)
\* "=" in param
HasEq(param) == \E i \in 1..Len(param) : param[i] = "="

\* FirstEq as it would be with the token split at its last "="
LastEq(param) ==
    CHOOSE i \in 1..Len(param) :
        /\ param[i] = "="
        /\ \A j \in (i + 1)..Len(param) : param[j] # "="

\* index of the first "=" of param
FirstEq(param) ==
    CHOOSE i \in 1..Len(param) :
        /\ param[i] = "="
        /\ \A j \in 1..(i - 1) : param[j] # "="

\* key.replace('-', '_')
ReplaceDash(key) == [i \in 1..Len(key) |-> IF key[i] = "-" THEN "_" ELSE key[i]]

\* key, value = param.split("=", 1)
SplitKey(param) == SubSeq(param, 1, FirstEq(param) - 1)
SplitValue(param) == SubSeq(param, FirstEq(param) + 1, Len(param))

\* the positional_args list after the for loop over params
RECURSIVE PositionalArgs(_)
PositionalArgs(params) ==
    IF params = <<>> THEN <<>>
    ELSE LET last == params[Len(params)]
             rest == PositionalArgs(SubSeq(params, 1, Len(params) - 1))
         IN  IF HasEq(last.v) THEN rest
             ELSE Append(rest, IF last.t = "str" THEN last.v ELSE last)

\* the keyword_args dict after the for loop over params (a later token with
\* the same key overwrites an earlier one)
RECURSIVE KeywordArgs(_)
KeywordArgs(params) ==
    IF params = <<>> THEN [k \in {} |-> <<>>]
    ELSE LET last == params[Len(params)]
             rest == KeywordArgs(SubSeq(params, 1, Len(params) - 1))
         IN  IF HasEq(last.v)
             THEN LET key == ReplaceDash(SplitKey(last.v))
                  IN  [k \in (DOMAIN rest) \cup {key} |->
                          IF k = key THEN SplitValue(last.v) ELSE rest[k]]
             ELSE rest

(***************************************************************************)
(* Inbound websocket messages.  A message is the JSON text received;       *)
(* kind tells what json.loads makes of it.  A JSON value is a record with  *)
(* its type t and, for a string, its characters or its text in v.          *)
(***************************************************************************)
Str(chars) == [t |-> "str", v |-> chars]

Name(text) == [t |-> "str", v |-> text]
NullName == [t |-> "null", v |-> ""]
ListName == [t |-> "list", v |-> ""]
DictName == [t |-> "dict", v |-> ""]

ParamList(tokens) == [t |-> "list", v |-> tokens]
\* "params": null
NullParams == [t |-> "null", v |-> <<>>]

Object(command, params) == [kind |-> "object", command |-> command, params |-> params]
Malformed == [kind |-> "malformed", command |-> NullName, params |-> ParamList(<<>>)]
\* JSON text whose value is not an object: a list, a string, a number, null
NonObject == [kind |-> "value", command |-> NullName, params |-> ParamList(<<>>)]

Tok80 == Str(<<"8", "0">>)
TokKw == Str(<<"v", "-", "x", "=", "8", "=", "0">>)
TokRed == Str(<<"r", "e", "d">>)
TokDup == Str(<<"v", "_", "x", "=", "1">>)
\* a parameter that is a JSON list, here ["a"]; v holds what `in` looks
\* through, the elements of a list or the keys of an object
ListParam == [t |-> "list", v |-> <<"a">>]
\* a parameter that is a JSON number
NumParam == [t |-> "num", v |-> <<>>]

\* the messages the model's websocket delivers: text that is not JSON, JSON
\* that is not an object, a registered command (with a keyword, a positional
\* and a list parameter), the same with a number for parameter and with null
\* for "params", an unregistered command, an object without "command", and
\* objects whose "command" is a list or an object
Messages ==
    { Malformed,
      NonObject,
      Object(Name("set_brightness"), ParamList(<<TokKw, Tok80, ListParam>>)),
      Object(Name("set_brightness"), ParamList(<<NumParam>>)),
      Object(Name("set_brightness"), NullParams),
      Object(Name("bogus"), ParamList(<<Tok80>>)),
      Object(NullName, ParamList(<<>>)),
      Object(ListName, ParamList(<<>>)),
      Object(DictName, ParamList(<<>>)) }

(***************************************************************************)
(* The encoders of module commands are outside the sources.  Whether a     *)
(* call raises is chosen nondeterministically where the call is made; the  *)
(* bytes a call returns are kept symbolic, as the call itself.             *)
(***************************************************************************)
EncoderOutput(name, positional_args, keyword_args) ==
    [command |-> name, positional |-> positional_args, keyword |-> keyword_args]

NoData == [command |-> "", positional |-> <<>>, keyword |-> [k \in {} |-> <<>>]]

(***************************************************************************)
(* The synchronous part of one loop iteration of handle_websocket, from    *)
(* json.loads to the encoder call.                                         *)
(***************************************************************************)
\* command_name in COMMANDS, for a hashable command_name
Registered(command) == command.t = "str" /\ command.v \in COMMANDS

\* the JSON types whose values are not hashable
Unhashable == {"list", "dict"}

\* what lines 57-58 raise for one parameter: `"=" in param` is a test on the
\* characters of a string, the elements of a list or the keys of a dict and
\* raises TypeError for anything else; param.split exists for strings only
ParamExc(param) ==
    IF param.t = "str" THEN NoExc
    ELSE IF param.t \in {"list", "dict"}
         THEN IF HasEq(param.v) THEN "AttributeError" ELSE NoExc
    ELSE "TypeError"

\* the JSON types `for param in params` (line 56) can iterate over
Iterable == {"list", "str", "dict"}

\* what the for loop yields: the elements of a list, the keys of a dict (v
\* holds them), the characters of a string
Items(params) ==
    IF params.t = "str" THEN [i \in 1..Len(params.v) |-> Str(<< params.v[i] >>)]
    ELSE params.v

\* the exception raised before the encoder is called, NoExc when there is
\* none: json.loads (line 49), command_data.get on a value that is not a
\* dict (line 50), the membership test on an unhashable name (line 53), the
\* for loop over a value that is not iterable (line 56), and the first
\* parameter that raises inside the loop
PipelineExc(m) ==
    CASE m.kind = "malformed" -> "JSONDecodeError"
      [] m.kind = "value" -> "AttributeError"
      [] OTHER ->
            IF m.command.t \in Unhashable THEN "TypeError"
            ELSE IF ~Registered(m.command) THEN NoExc
            ELSE IF m.params.t \notin Iterable THEN "TypeError"
            ELSE LET items == Items(m.params)
                     bad == {i \in 1..Len(items) : ParamExc(items[i]) # NoExc}
                 IN  IF bad = {} THEN NoExc
                     ELSE ParamExc(items[CHOOSE i \in bad : \A j \in bad : i <= j])

\* TRUE when the iteration reaches the encoder call (line 63)
ReachesEncoder(m) ==
    /\ m.kind = "object"
    /\ PipelineExc(m) = NoExc
    /\ Registered(m.command)

\* data = COMMANDS[command_name](*positional_args, **keyword_args)
EncodedData(m) ==
    EncoderOutput(m.command.v, PositionalArgs(Items(m.params)),
                  KeywordArgs(Items(m.params)))

\* AfterEncoder as it would be with the write issued whether or not the
\* encoder raised
AfterEncoderAlwaysWrite(raised) == "write"

\* AfterEncoder as it would be with an encoder's exception caught by no
\* clause of the loop
AfterEncoderLeavesLoop(raised) == IF raised THEN "finally" ELSE "write"

\* where the iteration goes after the encoder call: to the write (line 64),
\* or, the encoder having raised, by the inner except clause to the send
AfterEncoder(raised) == IF raised THEN "send" ELSE "write"

(***************************************************************************)
(* Responses.  re is the number, in receive order, of the message the      *)
(* response was computed from; it is bookkeeping, not part of the JSON.    *)
(***************************************************************************)
SuccessResponse(command_name, n) ==
    [status |-> "success", command |-> command_name, message |-> "", re |-> n]

\* str(e) is kept as the name of the exception's class
ErrorResponse(e, n) ==
    [status |-> "error", command |-> "", message |-> e, re |-> n]

\* UnknownResponse with another text
UnknownResponseOtherText(n) ==
    [status |-> "error", command |-> "", message |-> "Unknown command: bogus", re |-> n]

UnknownResponse(n) ==
    [status |-> "error", command |-> "", message |-> "Unknown command", re |-> n]

NoResponse == [status |-> "", command |-> "", message |-> "", re |-> 0]

\* the response of an iteration that does not reach the encoder call
EarlyResponse(m, n) ==
    IF PipelineExc(m) # NoExc THEN ErrorResponse(PipelineExc(m), n)
    ELSE UnknownResponse(n)

(***************************************************************************)
(* Outcomes of the awaited library calls.                                  *)
(***************************************************************************)
\* await client.connect(): connected; BleakError; returns with is_connected
\* false; an exception that is not a BleakError (connect's timeout); the task
\* is cancelled while it waits
ConnectOutcomes ==
    {"connected", "BleakError", "not_connected", "TimeoutError", "CancelledError"}
\* await websocket.recv(): a message, or one of these.  A BleakError can
\* reach the outer except BleakError clause from the awaits of the outer try
\* that are outside the inner one, the receive and the send: one raised by
\* the write is caught by the inner except clause first.
RecvExceptions == {"ConnectionClosed", "BleakError", "CancelledError"}
\* await client.write_gatt_char(...): written, transport error, or the task
\* is cancelled (CancelledError is no Exception: no except clause catches it)
WriteOutcomes == {"ok", "BleakError", "CancelledError"}
\* await websocket.send(...): sent, or one of the exceptions of recv; the
\* send is in the same outer try as the receive (lines 45-76)
SendOutcomes == {"ok", "ConnectionClosed", "BleakError", "CancelledError"}
\* await client.disconnect(): returns, raises, or the task is cancelled
DisconnectOutcomes == {"ok", "BleakError", "CancelledError"}
\* await asyncio.sleep(5): returns, or the task is cancelled
SleepOutcomes == {"ok", "CancelledError"}

(***************************************************************************)
(* Command lines.                                                          *)
(***************************************************************************)
NoCommand == [t |-> "none", v |-> "", params |-> <<>>]
Command(text, tokens) == [t |-> "command", v |-> text, params |-> tokens]

\* the values of args.server and args.command the model starts from
CommandLines ==
    { [server |-> TRUE, command |-> NoCommand],
      [server |-> FALSE, command |-> NoCommand],
      [server |-> FALSE, command |-> Command("clear", <<>>)],
      [server |-> FALSE, command |-> Command("set_brightness", <<TokKw, Tok80>>)],
      [server |-> FALSE, command |-> Command("bogus", <<Tok80>>)] }

\* the parameter lists of the one-shot runs that exercise the parameter
\* loop: every list of at most MaxParams tokens
ParamTokens == {Tok80, TokRed, TokKw, TokDup}

ParamLists == UNION {[1..n -> ParamTokens] : n \in 0..MaxParams}

VARIABLES
    args,         \* the parsed command line
    started,      \* what __main__ has started: "no", "server", "oneshot", "usage", "call"
    clients,      \* websocket connections the server will be given
    entry,        \* per task: the coroutine it runs
    pc,           \* per task: where the innermost activation stands
    stack,        \* per task: the activations of handle_websocket / execute_command,
                  \*   outermost first, each with its local variable client
    max_retries,  \* per task: the argument of the running connect_to_device
    retries,      \* per task: its local variable retries
    attempts,     \* per task: the client.connect() calls of the running connect_to_device
    sleeps,       \* per task: its completed asyncio.sleep(5) calls
    result,       \* per task: what the last connect_to_device returned
    exc,          \* per task: the exception propagating, or the one that left the task
    message,      \* per task: local variable message
    data,         \* per task: local variable data
    response,     \* per task: local variable response
    received,     \* per task: the messages websocket.recv() returned, in order
    sent,         \* per task: the responses websocket.send() delivered, in order
    encoded,      \* per task: the encoder calls made, in order
    writes,       \* per task: the write_gatt_char calls issued, in order
    handles,      \* the connected BleakClients, in order of acquisition
    output        \* the lines printed by __main__ and execute_command

vars ==
    << args, started, clients, entry, pc, stack, max_retries, retries, attempts, sleeps,
       result,
       exc, message, data, response, received, sent, encoded, writes, handles,
       output >>

mainVars == << args, started, clients >>
connVars == << max_retries, retries, attempts, sleeps >>
localVars == << message, data, response >>
wsVars == << received, sent >>
ioVars == << encoded, writes >>

Depth(s) == Len(stack[s])

\* Client as it would be with one client variable shared by all handlers,
\* holding the client connected last
ClientShared(s) == Len(handles)

\* Client as it would be with one client variable shared by the nested
\* activations of a session
ClientOutermost(s) == stack[s][1].client

\* the local variable client of the running activation of task s
Client(s) == stack[s][Depth(s)].client
NewHandle == Len(handles) + 1

\* the BleakClients of task s that are connected and on which disconnect()
\* has not been called
Live(s) == {h \in 1..Len(handles) : handles[h].owner = s /\ handles[h].disconnects = 0}

(***************************************************************************)
(* Leaving an activation.  An activation of handle_websocket that was      *)
(* called from the except clause of another one (line 76) returns, or      *)
(* raises e, into that clause, whose finally clause is next.               *)
(***************************************************************************)
Unwind(s, e) ==
    /\ stack' = [stack EXCEPT ![s] = SubSeq(@, 1, Len(@) - 1)]
    /\ exc' = [exc EXCEPT ![s] = e]
    /\ pc' = [pc EXCEPT ![s] = IF Depth(s) > 1 THEN "finally" ELSE "done"]

\* entering connect_to_device(address, n)
EnterConnect(s, n) ==
    /\ max_retries' = [max_retries EXCEPT ![s] = n]
    /\ retries' = [retries EXCEPT ![s] = 0]
    /\ attempts' = [attempts EXCEPT ![s] = 0]
    /\ sleeps' = [sleeps EXCEPT ![s] = 0]

\* where the caller of connect_to_device goes on with a client
AfterConnect(s) ==
    IF entry[s] = "handle_websocket" THEN "recv"
    ELSE IF entry[s] = "execute_command" THEN "exec"
    ELSE "done"

\* connect_to_device returns h (a client or None) or raises e, after n calls
\* of client.connect(); its frame (max_retries, retries and the counts of the
\* call) goes away with it, except at the end of a task that ran
\* connect_to_device alone
ConnectReturn(s, h, e, n) ==
    /\ result' = [result EXCEPT ![s] = h]
    /\ IF entry[s] = "connect_to_device"
       THEN /\ pc' = [pc EXCEPT ![s] = "done"]
            /\ exc' = [exc EXCEPT ![s] = e]
            /\ stack' = stack
            /\ UNCHANGED << max_retries, retries, sleeps >>
            /\ attempts' = [attempts EXCEPT ![s] = n]
       ELSE /\ max_retries' = [max_retries EXCEPT ![s] = DefaultMaxRetries]
            /\ retries' = [retries EXCEPT ![s] = 0]
            /\ attempts' = [attempts EXCEPT ![s] = 0]
            /\ sleeps' = [sleeps EXCEPT ![s] = 0]
            /\ IF e # NoExc \/ h = None
               THEN Unwind(s, e)
               ELSE /\ stack' = [stack EXCEPT ![s][Depth(s)].client = h]
                    /\ pc' = [pc EXCEPT ![s] = AfterConnect(s)]
                    /\ exc' = exc

(***************************************************************************)
(* connect_to_device                                                       *)
(***************************************************************************)
\* while retries < max_retries
RetryLeft(s) == retries[s] < max_retries[s]

\* one iteration of the loop up to its await: BleakClient(address),
\* await client.connect(), and what follows the outcome o
ConnectAttempt(s) ==
    /\ pc[s] = "connect"
    /\ RetryLeft(s)
    /\ \E o \in ConnectOutcomes :
          /\ o = "not_connected" => attempts[s] - retries[s] < MaxIdle
          /\ CASE o = "connected" ->
                    /\ handles' = Append(handles,
                            [owner |-> s, depth |-> Depth(s), disconnects |-> 0])
                    /\ ConnectReturn(s, NewHandle, NoExc, attempts[s] + 1)
               [] o = "BleakError" ->
                    /\ attempts' = [attempts EXCEPT ![s] = @ + 1]
                    /\ retries' = [retries EXCEPT ![s] = @ + 1]
                    /\ pc' = [pc EXCEPT ![s] = "sleep"]
                    /\ UNCHANGED << max_retries, sleeps, handles, stack, exc, result >>
               [] o = "not_connected" ->
                    /\ attempts' = [attempts EXCEPT ![s] = @ + 1]
                    /\ UNCHANGED << max_retries, retries, sleeps, pc, handles, stack,
                                    exc, result >>
               [] o \in {"TimeoutError", "CancelledError"} ->
                    /\ ConnectReturn(s, None, o, attempts[s] + 1)
                    /\ UNCHANGED handles
    /\ UNCHANGED << mainVars, entry, localVars, wsVars, ioVars, output >>

\* await asyncio.sleep(5) returns, or the task is cancelled while it
\* sleeps: CancelledError leaves connect_to_device
ConnectSleep(s) ==
    /\ pc[s] = "sleep"
    /\ \E o \in SleepOutcomes :
          IF o = "ok"
          THEN /\ sleeps' = [sleeps EXCEPT ![s] = @ + 1]
               /\ pc' = [pc EXCEPT ![s] = "connect"]
               /\ UNCHANGED << stack, max_retries, retries, attempts, result, exc >>
          ELSE ConnectReturn(s, None, o, attempts[s])
    /\ UNCHANGED << mainVars, entry, localVars, wsVars, ioVars, handles, output >>

\* the loop condition fails: return None
ConnectGiveUp(s) ==
    /\ pc[s] = "connect"
    /\ ~RetryLeft(s)
    /\ ConnectReturn(s, None, NoExc, attempts[s])
    /\ UNCHANGED << mainVars, entry, localVars, wsVars, ioVars, handles, output >>

(***************************************************************************)
(* __main__ and start_server                                               *)
(***************************************************************************)
Main ==
    /\ started = "no"
    /\ IF args.server
       THEN /\ started' = "server"
            /\ UNCHANGED << entry, pc, stack, connVars, output >>
       ELSE IF args.command.t = "command"
       THEN /\ started' = "oneshot"
            /\ entry' = [entry EXCEPT ![1] = "execute_command"]
            /\ stack' = [stack EXCEPT ![1] = << [client |-> None] >>]
            /\ pc' = [pc EXCEPT ![1] = "connect"]
            /\ EnterConnect(1, DefaultMaxRetries)
            /\ UNCHANGED output
       ELSE /\ started' = "usage"
            /\ output' = Append(output, "[ERROR] No mode specified")
            /\ UNCHANGED << entry, pc, stack, connVars >>
    /\ UNCHANGED << args, clients, result, exc, localVars, wsVars, ioVars, handles >>

\* the server calls handle_websocket(ws, path, address) for a new connection
Accept(s) ==
    /\ started = "server"
    /\ s <= clients
    /\ pc[s] = "idle"
    /\ entry' = [entry EXCEPT ![s] = "handle_websocket"]
    /\ stack' = [stack EXCEPT ![s] = << [client |-> None] >>]
    /\ pc' = [pc EXCEPT ![s] = "connect"]
    /\ EnterConnect(s, DefaultMaxRetries)
    /\ UNCHANGED << mainVars, result, exc, localVars, wsVars, ioVars, handles, output >>

(***************************************************************************)
(* handle_websocket                                                        *)
(***************************************************************************)
\* where an exception e raised by websocket.recv() or websocket.send()
\* takes the activation: "reenter" is the except BleakError clause
OuterHandler(e) ==
    IF e = "BleakError" THEN "reenter" ELSE "finally"

\* the exception still propagating once the except clauses of the outer try
\* have seen e
OuterPending(e) ==
    IF e \in {"ConnectionClosed", "BleakError"} THEN NoExc ELSE e

\* LeaveLoop as it would be with the disconnect placed after the try
\* statement instead of in a finally clause: an exception no except clause
\* catches leaves the activation at once
LeaveLoopNoFinally(s, e) ==
    IF OuterHandler(e) = "reenter"
    THEN /\ stack' = [stack EXCEPT ![s] = Append(@, [client |-> None])]
         /\ pc' = [pc EXCEPT ![s] = "connect"]
         /\ EnterConnect(s, DefaultMaxRetries)
         /\ UNCHANGED exc
    ELSE IF OuterPending(e) # NoExc
    THEN /\ Unwind(s, e)
         /\ UNCHANGED connVars
    ELSE /\ pc' = [pc EXCEPT ![s] = "finally"]
         /\ exc' = [exc EXCEPT ![s] = NoExc]
         /\ UNCHANGED << stack, connVars >>

\* e leaves the loop: except ConnectionClosed, except BleakError (which calls
\* handle_websocket again), or neither; the finally clause comes after
LeaveLoop(s, e) ==
    IF OuterHandler(e) = "reenter"
    THEN /\ stack' = [stack EXCEPT ![s] = Append(@, [client |-> None])]
         /\ pc' = [pc EXCEPT ![s] = "connect"]
         /\ EnterConnect(s, DefaultMaxRetries)
         /\ UNCHANGED exc
    ELSE /\ pc' = [pc EXCEPT ![s] = "finally"]
         /\ exc' = [exc EXCEPT ![s] = OuterPending(e)]
         /\ UNCHANGED << stack, connVars >>

\* message = await websocket.recv() returns a message
Recv(s) ==
    /\ pc[s] = "recv"
    /\ Len(received[s]) < MaxMsgs
    /\ \E m \in Messages :
          /\ message' = [message EXCEPT ![s] = m]
          /\ received' = [received EXCEPT ![s] = Append(@, m)]
    /\ pc' = [pc EXCEPT ![s] = "dispatch"]
    /\ UNCHANGED << mainVars, entry, stack, connVars, result, exc, data, response,
                    sent, ioVars, handles, output >>

\* await websocket.recv() raises
RecvRaises(s) ==
    /\ pc[s] = "recv"
    /\ \E e \in RecvExceptions :
          /\ OuterHandler(e) = "reenter" => Depth(s) < MaxDepth
          /\ LeaveLoop(s, e)
    /\ UNCHANGED << mainVars, entry, result, localVars, wsVars, ioVars, handles,
                    output >>

\* lines 48-63 and 66-69: from json.loads to the encoder's return, or to the
\* response of an iteration that ends before the write
Dispatch(s) ==
    /\ pc[s] = "dispatch"
    /\ LET m == message[s]
           n == Len(received[s])
       IN  IF ReachesEncoder(m)
           THEN \E raised \in BOOLEAN :
                   /\ encoded' = [encoded EXCEPT ![s] = Append(@,
                                     [re |-> n, call |-> EncodedData(m),
                                      raised |-> raised])]
                   /\ pc' = [pc EXCEPT ![s] = AfterEncoder(raised)]
                   /\ IF raised
                      THEN /\ response' = [response EXCEPT ![s] =
                                              ErrorResponse("EncoderError", n)]
                           /\ UNCHANGED data
                      ELSE /\ data' = [data EXCEPT ![s] = EncodedData(m)]
                           /\ UNCHANGED response
           ELSE /\ response' = [response EXCEPT ![s] = EarlyResponse(m, n)]
                /\ pc' = [pc EXCEPT ![s] = "send"]
                /\ UNCHANGED << data, encoded >>
    /\ UNCHANGED << mainVars, entry, stack, connVars, result, exc, message, wsVars,
                    writes, handles, output >>

\* the response of the iteration once write_gatt_char has ended with o:
\* line 65, or the inner except Exception clause
WriteResponse(s, o) ==
    IF o = "ok"
    THEN SuccessResponse(message[s].command.v, Len(received[s]))
    ELSE ErrorResponse(o, Len(received[s]))

\* TRUE when the inner "except Exception" clause catches e
InnerCatches(e) == e # "CancelledError"

\* await client.write_gatt_char(uuid, data)
Write(s) ==
    /\ pc[s] = "write"
    /\ \E o \in WriteOutcomes :
          /\ writes' = [writes EXCEPT ![s] = Append(@,
                           [handle |-> Client(s), data |-> data[s],
                            re |-> Len(received[s]), outcome |-> o])]
          /\ IF o = "ok" \/ InnerCatches(o)
             THEN /\ response' = [response EXCEPT ![s] = WriteResponse(s, o)]
                  /\ pc' = [pc EXCEPT ![s] = "send"]
                  /\ UNCHANGED << stack, connVars, exc >>
             ELSE /\ LeaveLoop(s, o)
                  /\ UNCHANGED response
    /\ UNCHANGED << mainVars, entry, result, message, data, wsVars, encoded, handles,
                    output >>

\* await websocket.send(json.dumps(response))
Send(s) ==
    /\ pc[s] = "send"
    /\ \E o \in SendOutcomes :
          IF o = "ok"
          THEN /\ sent' = [sent EXCEPT ![s] = Append(@, response[s])]
               /\ pc' = [pc EXCEPT ![s] = "recv"]
               /\ UNCHANGED << stack, connVars, exc >>
          ELSE /\ OuterHandler(o) = "reenter" => Depth(s) < MaxDepth
               /\ LeaveLoop(s, o)
               /\ UNCHANGED sent
    /\ UNCHANGED << mainVars, entry, result, localVars, received, ioVars, handles,
                    output >>

\* finally: await client.disconnect(), then the activation returns or
\* re-raises (an exception of disconnect replaces the pending one)
Finally(s) ==
    /\ pc[s] = "finally"
    /\ \E o \in DisconnectOutcomes :
          /\ handles' = [handles EXCEPT ![Client(s)].disconnects = @ + 1]
          /\ Unwind(s, IF o = "ok" THEN exc[s] ELSE o)
    /\ UNCHANGED << mainVars, entry, connVars, result, localVars, wsVars, ioVars,
                    output >>

(***************************************************************************)
(* execute_command                                                         *)
(***************************************************************************)
\* lines 91-101 and 104-105
Exec(s) ==
    /\ pc[s] = "exec"
    /\ LET name == args.command.v
           call == EncoderOutput(name, PositionalArgs(args.command.params),
                                 KeywordArgs(args.command.params))
       IN  IF name \in COMMANDS
           THEN \E raised \in BOOLEAN :
                   /\ encoded' = [encoded EXCEPT ![s] = Append(@,
                                     [re |-> 0, call |-> call, raised |-> raised])]
                   /\ IF raised
                      THEN /\ exc' = [exc EXCEPT ![s] = "EncoderError"]
                           /\ pc' = [pc EXCEPT ![s] = "finally"]
                           /\ UNCHANGED << data, output >>
                      ELSE /\ data' = [data EXCEPT ![s] = call]
                           /\ pc' = [pc EXCEPT ![s] = "xwrite"]
                           /\ UNCHANGED << exc, output >>
           ELSE /\ output' = Append(output, "[ERROR] Unknown command")
                /\ pc' = [pc EXCEPT ![s] = "finally"]
                /\ UNCHANGED << exc, data, encoded >>
    /\ UNCHANGED << mainVars, entry, stack, connVars, result, message, response,
                    wsVars, writes, handles >>

\* lines 102-103
ExecWrite(s) ==
    /\ pc[s] = "xwrite"
    /\ \E o \in WriteOutcomes :
          /\ writes' = [writes EXCEPT ![s] = Append(@,
                           [handle |-> Client(s), data |-> data[s],
                            re |-> 0, outcome |-> o])]
          /\ IF o = "ok"
             THEN /\ output' = Append(output, "[INFO] Command executed successfully")
                  /\ UNCHANGED exc
             ELSE /\ exc' = [exc EXCEPT ![s] = o]
                  /\ UNCHANGED output
    /\ pc' = [pc EXCEPT ![s] = "finally"]
    /\ UNCHANGED << mainVars, entry, stack, connVars, result, localVars, wsVars,
                    encoded, handles >>

(***************************************************************************)
(* The end of the process.  The else branch of __main__ prints and falls   *)
(* off the end of the script, as does a one-shot run whose asyncio.run     *)
(* returned: status 0.  An exception that leaves asyncio.run ends the      *)
(* interpreter with status 1.  The main task of a one-shot run is          *)
(* cancelled by nothing but an interrupt (SIGINT): asyncio.run turns the   *)
(* task's CancelledError into KeyboardInterrupt, and the interpreter ends  *)
(* an uncaught KeyboardInterrupt by killing itself with SIGINT.  The       *)
(* status of a process killed by signal n is 128 + n to a shell and -n to  *)
(* a parent process.  The server runs until it is interrupted.             *)
(***************************************************************************)
Exited == started = "usage" \/ (started = "oneshot" /\ pc[1] = "done")

\* 128 + 2: killed by SIGINT
ExitStatus ==
    IF started = "oneshot" /\ exc[1] = "CancelledError" THEN 128 + 2
    ELSE IF started = "oneshot" /\ exc[1] # NoExc THEN 1
    ELSE 0

(***************************************************************************)
(* Specifications                                                          *)
(***************************************************************************)
InitTasks ==
    /\ entry = [s \in Tasks |-> "none"]
    /\ pc = [s \in Tasks |-> "idle"]
    /\ stack = [s \in Tasks |-> <<>>]
    /\ max_retries = [s \in Tasks |-> DefaultMaxRetries]
    /\ retries = [s \in Tasks |-> 0]
    /\ attempts = [s \in Tasks |-> 0]
    /\ sleeps = [s \in Tasks |-> 0]
    /\ result = [s \in Tasks |-> None]
    /\ exc = [s \in Tasks |-> NoExc]
    /\ message = [s \in Tasks |-> Malformed]
    /\ data = [s \in Tasks |-> NoData]
    /\ response = [s \in Tasks |-> NoResponse]
    /\ received = [s \in Tasks |-> <<>>]
    /\ sent = [s \in Tasks |-> <<>>]
    /\ encoded = [s \in Tasks |-> <<>>]
    /\ writes = [s \in Tasks |-> <<>>]
    /\ handles = <<>>
    /\ output = <<>>

\* the program as started from the command line, serving one websocket
\* connection in server mode
Init ==
    /\ args \in CommandLines
    /\ started = "no"
    /\ clients = 1
    /\ InitTasks

Next ==
    \/ Main
    \/ \E s \in Tasks : Accept(s)
    \/ \E s \in Tasks : ConnectAttempt(s)
    \/ \E s \in Tasks : ConnectSleep(s)
    \/ \E s \in Tasks : ConnectGiveUp(s)
    \/ \E s \in Tasks : Recv(s)
    \/ \E s \in Tasks : RecvRaises(s)
    \/ \E s \in Tasks : Dispatch(s)
    \/ \E s \in Tasks : Write(s)
    \/ \E s \in Tasks : Send(s)
    \/ \E s \in Tasks : Finally(s)
    \/ \E s \in Tasks : Exec(s)
    \/ \E s \in Tasks : ExecWrite(s)

Spec == Init /\ [][Next]_vars

\* connect_to_device called on its own, with max_retries drawn from
\* 0..MaxRetriesArg
InitConnect ==
    /\ args = [server |-> FALSE, command |-> NoCommand]
    /\ started = "call"
    /\ clients = 0
    /\ entry = [s \in Tasks |-> IF s = 1 THEN "connect_to_device" ELSE "none"]
    /\ pc = [s \in Tasks |-> IF s = 1 THEN "connect" ELSE "idle"]
    /\ stack = [s \in Tasks |-> <<>>]
    /\ max_retries \in [Tasks -> 0..MaxRetriesArg]
    /\ \A s \in Tasks : s # 1 => max_retries[s] = 0
    /\ retries = [s \in Tasks |-> 0]
    /\ attempts = [s \in Tasks |-> 0]
    /\ sleeps = [s \in Tasks |-> 0]
    /\ result = [s \in Tasks |-> None]
    /\ exc = [s \in Tasks |-> NoExc]
    /\ message = [s \in Tasks |-> Malformed]
    /\ data = [s \in Tasks |-> NoData]
    /\ response = [s \in Tasks |-> NoResponse]
    /\ received = [s \in Tasks |-> <<>>]
    /\ sent = [s \in Tasks |-> <<>>]
    /\ encoded = [s \in Tasks |-> <<>>]
    /\ writes = [s \in Tasks |-> <<>>]
    /\ handles = <<>>
    /\ output = <<>>

NextConnect ==
    \/ \E s \in Tasks : ConnectAttempt(s)
    \/ \E s \in Tasks : ConnectSleep(s)
    \/ \E s \in Tasks : ConnectGiveUp(s)

SpecConnect == InitConnect /\ [][NextConnect]_vars

\* one-shot runs of a registered command over every parameter list
InitParams ==
    /\ args \in {[server |-> FALSE, command |-> Command("set_pixel", p)] :
                    p \in ParamLists}
    /\ started = "no"
    /\ clients = 1
    /\ InitTasks

NextParams ==
    \/ Main
    \/ \E s \in Tasks : ConnectAttempt(s)
    \/ \E s \in Tasks : ConnectSleep(s)
    \/ \E s \in Tasks : ConnectGiveUp(s)
    \/ \E s \in Tasks : Exec(s)
    \/ \E s \in Tasks : ExecWrite(s)
    \/ \E s \in Tasks : Finally(s)

SpecParams == InitParams /\ [][NextParams]_vars

\* the messages task s has received, by number
Msgs(s) == 1..Len(received[s])

\* the server with one websocket connection per task, all served at once
InitConc ==
    /\ args = [server |-> TRUE, command |-> NoCommand]
    /\ started = "no"
    /\ clients = NumTasks
    /\ InitTasks

\* what the websockets and the devices do in the runs of SpecConc: the
\* tasks are numbered in the order the server accepts their connections; the
\* connections deliver MaxMsgs messages between them, each one a command
\* that reaches its encoder; a connect attempt either connects or times
\* out; the server is not interrupted, so that no handler is cancelled; and
\* websocket.recv() and websocket.send() raise no BleakError, so that no
\* handler re-enters itself
ConcScenario ==
    /\ \A s \in Tasks : Depth(s) <= 1
    /\ \A s \in Tasks : retries[s] = 0 /\ attempts[s] = 0
    /\ \A s \in Tasks : exc[s] # "CancelledError"
    /\ \A s, t \in Tasks : (s < t /\ pc[t] # "idle") => pc[s] # "idle"
    /\ Cardinality(UNION {{s} \X Msgs(s) : s \in Tasks}) <= MaxMsgs
    /\ \A s \in Tasks : \A k \in Msgs(s) : ReachesEncoder(received[s][k])

NextConc ==
    \/ Main /\ ConcScenario'
    \/ \E s \in Tasks : Accept(s) /\ ConcScenario'
    \/ \E s \in Tasks : ConnectAttempt(s) /\ ConcScenario'
    \/ \E s \in Tasks : Recv(s) /\ ConcScenario'
    \/ \E s \in Tasks : RecvRaises(s) /\ ConcScenario'
    \/ \E s \in Tasks : Dispatch(s) /\ ConcScenario'
    \/ \E s \in Tasks : Write(s) /\ ConcScenario'
    \/ \E s \in Tasks : Send(s) /\ ConcScenario'
    \/ \E s \in Tasks : Finally(s) /\ ConcScenario'

SpecConc == InitConc /\ [][NextConc]_vars

(***************************************************************************)
(* Properties                                                              *)
(***************************************************************************)
ServerTasks == {s \in Tasks : entry[s] = "handle_websocket"}

\* the writes issued for the k-th message of task s
WritesFor(s, k) == {i \in 1..Len(writes[s]) : writes[s][i].re = k}

\* the encoder calls made for the k-th message of task s
EncodedFor(s, k) == {i \in 1..Len(encoded[s]) : encoded[s][i].re = k}

\* the responses sent for the k-th message of task s
SentFor(s, k) == {i \in 1..Len(sent[s]) : sent[s][i].re = k}

\* the iteration for the k-th message of task s has its response
Answered(s, k) == SentFor(s, k) # {} \/ (k = Len(received[s]) /\ pc[s] = "send")

\* that response
ResponseTo(s, k) ==
    IF SentFor(s, k) # {} THEN sent[s][CHOOSE i \in SentFor(s, k) : TRUE]
    ELSE response[s]

\* the command name of m is hashable and is not a key of COMMANDS
IsUnknown(m) ==
    m.kind = "object" /\ m.command.t \notin Unhashable /\ ~Registered(m.command)

\* C1: connect_to_device makes at most max_retries connect attempts, and once
\* max_retries attempts have not produced a connected client it makes no
\* further attempt (the loop ends and None is returned).
C1_AtMostMaxRetries ==
    \A s \in Tasks :
        entry[s] = "connect_to_device" =>
            /\ attempts[s] <= max_retries[s]
            /\ (pc[s] = "connect" /\ attempts[s] >= max_retries[s]) => ~RetryLeft(s)

\* C2: a write_gatt_char that raises BleakError for a message is not answered
\* with an error response for that message.
C2_WriteLossNotAnswered ==
    \A s \in ServerTasks :
        \A i \in 1..Len(writes[s]) :
            writes[s][i].outcome = "BleakError" =>
                ~\E k \in 1..Len(sent[s]) :
                    /\ sent[s][k].re = writes[s][i].re
                    /\ sent[s][k].status = "error"

\* C3: the number of transport-loss recoveries of one client session, the
\* nesting depth of handle_websocket beyond the first activation, never
\* exceeds 3.
C3_RecoveryCap ==
    \A s \in ServerTasks : Depth(s) - 1 <= 3

\* C4: no websocket receive is issued while a message whose write was lost
\* has not been written again on a newly acquired connection.
C4_ReplayBeforeRecv ==
    \A s \in ServerTasks :
        pc[s] = "recv" =>
            \A i \in 1..Len(writes[s]) :
                writes[s][i].outcome = "BleakError" =>
                    \E j \in (i + 1)..Len(writes[s]) :
                        /\ writes[s][j].re = writes[s][i].re
                        /\ writes[s][j].handle # writes[s][i].handle

\* C5: one client session holds at most one BLE client that is connected and
\* not yet disconnected.
C5_OneLiveHandle ==
    \A s \in ServerTasks : Cardinality(Live(s)) <= 1

\* C6: disconnect() is called at most once on every client handle_websocket
\* acquired, and exactly once as soon as the activation that acquired it has
\* returned, whatever ended its loop.
C6_ReleasedOnExit ==
    \A h \in 1..Len(handles) :
        handles[h].owner \in ServerTasks =>
            /\ handles[h].disconnects <= 1
            /\ handles[h].depth > Depth(handles[h].owner) => handles[h].disconnects = 1

\* a handler that re-entered itself has ended with an exception and has
\* nothing left connected
C6_Witness ==
    \E s \in ServerTasks :
        /\ pc[s] = "done"
        /\ exc[s] = "CancelledError"
        /\ Cardinality({h \in 1..Len(handles) : handles[h].owner = s}) >= 2
        /\ Live(s) = {}

\* the response r is what the iteration answers to m, the k-th message
Answers(r, m, k) ==
    /\ r.re = k
    /\ IF ReachesEncoder(m)
       THEN r \in {SuccessResponse(m.command.v, k), ErrorResponse("BleakError", k),
                   ErrorResponse("EncoderError", k)}
       ELSE r = EarlyResponse(m, k)

\* C7: the responses sent are one per message received, or one less; a
\* receive is issued only when every message received has its response; and
\* the k-th response sent answers the k-th message received.
C7_OneResponsePerMessage ==
    \A s \in ServerTasks :
        /\ Len(sent[s]) \in {Len(received[s]), Len(received[s]) - 1}
        /\ pc[s] = "recv" => Len(sent[s]) = Len(received[s])
        /\ \A k \in 1..Len(sent[s]) : Answers(sent[s][k], received[s][k], k)

\* C8: a message whose command name is not a key of COMMANDS is answered with
\* exactly {status: error, message: "Unknown command"}, and no encoder call
\* and no BLE write is made for it; in one-shot mode an unregistered command
\* name causes no encoder call and no BLE write either.
C8_UnknownCommand ==
    /\ \A s \in ServerTasks :
          \A k \in Msgs(s) :
              IsUnknown(received[s][k]) =>
                  /\ EncodedFor(s, k) = {}
                  /\ WritesFor(s, k) = {}
                  /\ (k = Len(received[s]) => pc[s] # "write")
                  /\ Answered(s, k) =>
                        ResponseTo(s, k) =
                            [status |-> "error", command |-> "",
                             message |-> "Unknown command", re |-> k]
    /\ \A s \in Tasks :
          (entry[s] = "execute_command" /\ args.command.v \notin COMMANDS) =>
              encoded[s] = <<>> /\ writes[s] = <<>>

\* an unregistered command name was received and its response sent
C8_Witness ==
    \E s \in ServerTasks :
        \E k \in Msgs(s) :
            /\ received[s][k].command = Name("bogus")
            /\ SentFor(s, k) # {}
            /\ pc[s] = "recv"

\* the encoder call made for the k-th message of task s raised
EncoderRaised(s, k) == \E i \in EncodedFor(s, k) : encoded[s][i].raised

\* the encoder call made for the k-th message of task s returned
EncoderReturned(s, k) == \E i \in EncodedFor(s, k) : ~encoded[s][i].raised

\* C9: a message naming a registered command whose encoder raises is answered
\* with a response of status error, and no BLE write is issued for it.
C9_EncoderFailure ==
    \A s \in ServerTasks :
        \A k \in Msgs(s) :
            (Registered(received[s][k].command) /\ EncoderRaised(s, k)) =>
                /\ WritesFor(s, k) = {}
                /\ (k = Len(received[s]) => pc[s] # "write")
                /\ Answered(s, k) => ResponseTo(s, k).status = "error"

\* the encoder was called for a message, raised, and the error response was
\* sent
C9_Witness ==
    \E s \in ServerTasks :
        \E k \in Msgs(s) :
            /\ Registered(received[s][k].command)
            /\ EncoderRaised(s, k)
            /\ \E i \in SentFor(s, k) : sent[s][i].status = "error"

\* the write made for the k-th message of task s is the only one, carries
\* what the one encoder call made for that message returned, and went to a
\* client the task acquired
OneWriteOfEncoderOutput(s, k) ==
    LET m == received[s][k]
    IN  /\ Cardinality(WritesFor(s, k)) = 1
        /\ Cardinality(EncodedFor(s, k)) = 1
        /\ \A i \in WritesFor(s, k) :
              /\ \A j \in EncodedFor(s, k) :
                    /\ ~encoded[s][j].raised
                    /\ encoded[s][j].call =
                          EncoderOutput(m.command.v, PositionalArgs(Items(m.params)),
                                        KeywordArgs(Items(m.params)))
                    /\ writes[s][i].data = encoded[s][j].call
              /\ writes[s][i].handle \in 1..Len(handles)
              /\ handles[writes[s][i].handle].owner = s
              /\ (k = Len(received[s]) /\ pc[s] = "send") =>
                    /\ writes[s][i].handle = Client(s)
                    /\ handles[Client(s)].disconnects = 0

\* C10: a message naming a registered command whose encoder accepts the
\* arguments gets exactly one BLE write, of the encoder's output, to the
\* session's handle, and the response {status: success, command: name}.
C10_AlwaysSuccess ==
    \A s \in ServerTasks :
        \A k \in Msgs(s) :
            (Registered(received[s][k].command) /\ EncoderReturned(s, k)
                /\ Answered(s, k)) =>
                /\ OneWriteOfEncoderOutput(s, k)
                /\ ResponseTo(s, k) = SuccessResponse(received[s][k].command.v, k)

\* the step of task s is an iteration ending without a write: the message
\* does not reach an encoder (parse failure, TypeError, unknown command), or
\* the encoder called in this step raises
FailsBeforeWrite(s) ==
    /\ pc[s] = "dispatch"
    /\ \/ ~ReachesEncoder(message[s])
       \/ /\ Len(encoded'[s]) = Len(encoded[s]) + 1
          /\ encoded'[s][Len(encoded'[s])].raised

\* the step of task s sends the error response of such an iteration
SendsFailure(s) ==
    /\ pc[s] = "send"
    /\ WritesFor(s, Len(received[s])) = {}
    /\ Len(sent'[s]) = Len(sent[s]) + 1

\* the step leaves the activations of task s and every BLE client as they
\* are, and the client of the running activation is connected
SessionKept(s) ==
    /\ stack'[s] = stack[s]
    /\ handles' = handles
    /\ Client(s) \in Live(s)
    /\ exc'[s] = exc[s]

\* C11: an iteration that fails before the write (malformed JSON, unknown
\* command, encoder failure) goes on to send an error response, and once
\* that response is sent the loop is at the next receive; neither step
\* changes the activation, calls disconnect or acquires a client.
C11_FailureKeepsSession ==
    [][\A s \in ServerTasks :
          /\ FailsBeforeWrite(s) =>
                /\ pc'[s] = "send"
                /\ response'[s].status = "error"
                /\ response'[s].re = Len(received[s])
                /\ SessionKept(s)
          /\ SendsFailure(s) =>
                /\ pc'[s] = "recv"
                /\ sent'[s][Len(sent'[s])].status = "error"
                /\ SessionKept(s)]_vars

\* a malformed message was answered with an error, and the loop waits for
\* the next message on the client it started with
C11_Witness ==
    \E s \in ServerTasks :
        /\ pc[s] = "recv"
        /\ Len(sent[s]) = 1
        /\ received[s][1] = Malformed
        /\ sent[s][1].status = "error"
        /\ writes[s] = <<>>
        /\ Depth(s) = 1
        /\ handles = << [owner |-> s, depth |-> 1, disconnects |-> 0] >>

\* C12: connect_to_device ends by returning a connected client or None; no
\* failure of client.connect() leaves it as a raised exception.
C12_NoExceptionEscapes ==
    \A s \in Tasks :
        (entry[s] = "connect_to_device" /\ pc[s] = "done") =>
            /\ exc[s] = NoExc
            /\ result[s] # None => result[s] \in 1..Len(handles)

\* C13: a disconnect() that fails in the finally clause raises nothing out
\* of handle_websocket or execute_command: when the task has ended and none
\* of its writes raised BleakError, no BleakError is left pending.
C13_ReleaseSwallowsErrors ==
    \A s \in Tasks :
        (entry[s] \in {"handle_websocket", "execute_command"} /\ pc[s] = "done"
            /\ \A i \in 1..Len(writes[s]) : writes[s][i].outcome # "BleakError") =>
            exc[s] # "BleakError"

\* C16: a one-shot run that acquired a client makes one encoder call at
\* most and one BLE write at most, acquires no second client, has called
\* disconnect exactly once when it ends, and ends with one printed line
\* telling success or failure.
C16_OneShotRun ==
    \A s \in Tasks :
        (entry[s] = "execute_command" /\ pc[s] = "done" /\ handles # <<>>) =>
            /\ Len(encoded[s]) <= 1
            /\ Len(writes[s]) <= 1
            /\ Len(handles) = 1
            /\ handles[1].disconnects = 1
            /\ Len(output) = 1

\* C17: a message whose command field is missing or is not a string is
\* answered with {status: error, message: "Unknown command"}, and no encoder
\* call and no BLE write is made for it.
C17_NonStringCommand ==
    \A s \in ServerTasks :
        \A k \in Msgs(s) :
            (received[s][k].kind = "object" /\ received[s][k].command.t # "str") =>
                /\ EncodedFor(s, k) = {}
                /\ WritesFor(s, k) = {}
                /\ Answered(s, k) =>
                      ResponseTo(s, k) =
                          [status |-> "error", command |-> "",
                           message |-> "Unknown command", re |-> k]

\* C18: server mode and one-shot mode never both run; with neither --server
\* nor --command the process prints the usage error, makes no connect
\* attempt and exits with a status other than 0.
C18_OneModeOrUsageError ==
    /\ started = "server" => \A s \in Tasks : entry[s] # "execute_command"
    /\ started = "oneshot" => \A s \in Tasks : entry[s] # "handle_websocket"
    /\ started = "usage" =>
          /\ output = << "[ERROR] No mode specified" >>
          /\ handles = <<>>
          /\ \A s \in Tasks : pc[s] = "idle" /\ attempts[s] = 0
          /\ Exited
          /\ ExitStatus # 0

\* C19: while connect_to_device is in its loop every connect attempt made so
\* far has incremented retries and has been followed by a sleep.
C19_FailureCountsAndWaits ==
    \A s \in Tasks :
        (entry[s] = "connect_to_device" /\ pc[s] = "connect") =>
            /\ retries[s] = attempts[s]
            /\ sleeps[s] = attempts[s]

\* C20: every write_gatt_char of a server session is issued on a client that
\* the running activation of handle_websocket acquired itself and on which
\* disconnect() has not been called.
C20_WriteOnLiveOwnHandle ==
    [][\A s \in ServerTasks :
          Len(writes'[s]) = Len(writes[s]) + 1 =>
              LET w == writes'[s][Len(writes'[s])]
              IN  /\ w.handle \in 1..Len(handles)
                  /\ handles[w.handle].owner = s
                  /\ handles[w.handle].depth = Depth(s)
                  /\ handles[w.handle].disconnects = 0]_vars

\* a session that re-entered itself wrote on the client of the nested
\* activation, and has ended with both its clients disconnected
C20_Witness ==
    \E s \in ServerTasks :
        /\ pc[s] = "done"
        /\ Len(handles) = 2
        /\ Len(writes[s]) = 1
        /\ writes[s][1].handle = 2
        /\ \A h \in 1..Len(handles) : handles[h].disconnects = 1

\* the token has a "="
WithEq(tok) == \E i \in 1..Len(tok.v) : tok.v[i] = "="

\* the token has none
WithoutEq(tok) == ~WithEq(tok)

\* the text before the first "=" of chars, and the text after it
AtFirstEq(chars) ==
    CHOOSE kv \in {<< SubSeq(chars, 1, i - 1), SubSeq(chars, i + 1, Len(chars)) >> :
                     i \in 1..Len(chars)} :
        /\ chars = kv[1] \o << "=" >> \o kv[2]
        /\ \A j \in 1..Len(kv[1]) : kv[1][j] # "="

\* the tokens without "=", in the order of the list
InOrderWithoutEq(toks) ==
    LET sel == SelectSeq(toks, WithoutEq)
    IN  [i \in 1..Len(sel) |-> sel[i].v]

\* the tokens of toks with a "="
EqTokens(toks) == {i \in 1..Len(toks) : WithEq(toks[i])}

\* the keyword name the i-th token sets
KeyOf(toks, i) == ReplaceDash(AtFirstEq(toks[i].v)[1])

\* the tokens with a "=" whose key a later token sets again
Replaced(toks) ==
    {i \in EqTokens(toks) : \E j \in EqTokens(toks) : j > i /\ KeyOf(toks, j) = KeyOf(toks, i)}

\* the one-shot runs whose parameter loop has run, with the arguments the
\* encoder was called with
ParamRuns == {s \in Tasks : entry[s] = "execute_command" /\ encoded[s] # <<>>}

\* C15 as stated: every token with a "=" yields one keyword entry, keyed by
\* the text before the first "=" and holding the rest; the tokens without
\* "=" are the positional arguments, in order; the keyword entries and the
\* positional arguments are as many as the tokens.
C15_OneEntryPerToken ==
    \A s \in ParamRuns :
        LET toks == args.command.params
            call == encoded[s][1].call
        IN  /\ \A i \in EqTokens(toks) :
                  /\ AtFirstEq(toks[i].v)[1] \in DOMAIN call.keyword
                  /\ call.keyword[AtFirstEq(toks[i].v)[1]] = AtFirstEq(toks[i].v)[2]
            /\ call.positional = InOrderWithoutEq(toks)
            /\ Cardinality(DOMAIN call.keyword) + Len(call.positional) = Len(toks)

\* C15 amended: every token with a "=" sets the keyword entry named by the
\* text before its first "=", with "-" replaced by "_", to the rest of the
\* token, a later token replacing what an earlier one set under the same
\* name; the tokens without "=" are the positional arguments, in order; the
\* keyword entries and the positional arguments are as many as the tokens
\* that were not replaced.
C15_LastTokenPerKey ==
    \A s \in ParamRuns :
        LET toks == args.command.params
            call == encoded[s][1].call
        IN  /\ DOMAIN call.keyword = {KeyOf(toks, i) : i \in EqTokens(toks)}
            /\ \A i \in EqTokens(toks) \ Replaced(toks) :
                  call.keyword[KeyOf(toks, i)] = AtFirstEq(toks[i].v)[2]
            /\ call.positional = InOrderWithoutEq(toks)
            /\ Cardinality(DOMAIN call.keyword) + Len(call.positional)
                  = Len(toks) - Cardinality(Replaced(toks))

\* the encoder was called for a list of three tokens: one positional, and
\* two that set the same keyword, of which the later one is kept
C15_Witness ==
    \E s \in ParamRuns :
        /\ args.command.params = << TokKw, TokRed, TokDup >>
        /\ encoded[s][1].call.positional = << TokRed.v >>
        /\ DOMAIN encoded[s][1].call.keyword = {<< "v", "_", "x" >>}
        /\ encoded[s][1].call.keyword[<< "v", "_", "x" >>] = << "1" >>

\* the BLE clients held in the activations of task s
Held(s) == {stack[s][d].client : d \in 1..Depth(s)} \ {None}

\* every client held by a handler was connected by that handler, and no
\* client is held by two handlers
OwnClients ==
    /\ \A s \in ServerTasks : \A h \in Held(s) :
          h \in 1..Len(handles) /\ handles[h].owner = s
    /\ \A s, t \in ServerTasks : s # t => Held(s) \cap Held(t) = {}

====
